---- MODULE Spec2Model ----
(***************************************************************************)
(* Model of find_melt_line_crossings                                       *)
(* (tutorials/laserbeamFoam/Test_MeltTrackID/TimeTemp/                     *)
(* temperature_analysis.py): sort the samples by time, resample the        *)
(* piecewise-linear signal on a uniform grid of 10 * n points, scan the    *)
(* grid for sign changes of (temperature - melt_temp), then pair adjacent  *)
(* up/down crossings into periods above the melt line.                     *)
(*                                                                         *)
(* float64 values are modelled as exact rationals [nan, num, den] (den > 0,*)
(* lowest terms) plus NaN; rounding is not modelled.                       *)
(*                                                                         *)
(* Also modelled, from the same file: the statistics the caller            *)
(* (plot_temperature_history_with_melt_analysis) derives from the returned *)
(* lists, and its sampling loop over the output files with                 *)
(* extract_temperature_at_point (SpecSample).                              *)
(*                                                                         *)
(* From tutorials/ch_1x5_bp/Temp/pythonvtk/enhanced_vtk_analyzer.py:       *)
(* wait_for_new_vtk_file with find_latest_vtk_file (SpecWait), the loop of *)
(* main over the candidate array names (SpecMain),                         *)
(* convert_to_structured_grid (SpecGrid) and the measurements of           *)
(* analyze_melt_pool_xy_plane (SpecPool).                                  *)
(***************************************************************************)
EXTENDS Integers, Sequences, FiniteSets, TLC

\* One call of find_melt_line_crossings.
VARIABLES time_data, temp_data, melt_temp, pc, sorted_time, sorted_temp,
          i, crossings, time_above_melt_periods, returned, log

\* The sampling loop of plot_temperature_history_with_melt_analysis.
VARIABLES vtk_files, file_index, timesteps, temperatures, sampling

extractorVars ==
    <<time_data, temp_data, melt_temp, pc, sorted_time, sorted_temp,
      i, crossings, time_above_melt_periods, returned, log>>

samplerVars == <<vtk_files, file_index, timesteps, temperatures, sampling>>

\* One call of wait_for_new_vtk_file (enhanced_vtk_analyzer.py) and the
\* directory it watches.
VARIABLES mtimes, written, last_file, now, wait_pc, wait_result, poll_outcome

waitVars ==
    <<mtimes, written, last_file, now, wait_pc, wait_result, poll_outcome>>

\* The loop of main over the candidate array names.
VARIABLES array_name, verbose, attempted, attempt_outcomes,
          analysis_successful, exit_code

mainVars ==
    <<array_name, verbose, attempted, attempt_outcomes, analysis_successful,
      exit_code>>

\* One call of convert_to_structured_grid.
VARIABLES requested_array, point_arrays, grid_pc, grid_outcome

gridVars == <<requested_array, point_arrays, grid_pc, grid_outcome>>

\* One call of analyze_melt_pool_xy_plane, from the slice on.
VARIABLES xy_slice, y_reference, threshold, pool_pc, results

poolVars == <<xy_slice, y_reference, threshold, pool_pc, results>>

\* The variables of enhanced_vtk_analyzer.py.
analyzerVars == <<waitVars, mainVars, gridVars, poolVars>>

vars == <<extractorVars, samplerVars, analyzerVars>>

\* No call of wait_for_new_vtk_file is running.
WaitIdle ==
    /\ mtimes = <<>>
    /\ written = {}
    /\ last_file = ""
    /\ now = 0
    /\ wait_pc = "idle"
    /\ wait_result = ""
    /\ poll_outcome = ""

\* Nothing of enhanced_vtk_analyzer.py is running.
\* The process has not exited.
Running == -1

\* main has not reached its loop.
MainIdle ==
    /\ array_name = ""
    /\ verbose = FALSE
    /\ attempted = <<>>
    /\ attempt_outcomes = <<>>
    /\ analysis_successful = FALSE
    /\ exit_code = Running

\* No call of convert_to_structured_grid is running.
GridIdle ==
    /\ requested_array = ""
    /\ point_arrays = <<>>
    /\ grid_pc = "idle"
    /\ grid_outcome = <<>>

\* No call of analyze_melt_pool_xy_plane is running.
PoolIdle ==
    /\ xy_slice = <<>>
    /\ y_reference = 0
    /\ threshold = 0
    /\ pool_pc = "idle"
    /\ results = <<>>

AnalyzerIdle == WaitIdle /\ MainIdle /\ GridIdle /\ PoolIdle

\* The sampling loop is not running.
SamplerIdle ==
    /\ vtk_files = <<>>
    /\ file_index = 0
    /\ timesteps = <<>>
    /\ temperatures = <<>>
    /\ sampling = "idle"

-----------------------------------------------------------------------------
(* Bounds of the model. *)

\* Longest input series.
MaxN == 3

\* Sample times are drawn from 0 .. MaxT.
MaxT == 2

\* Longest crossing list handed to the pairing loop on its own (SpecPair).
MaxC == 4

\* Crossing times of SpecPair are drawn from 1 .. MaxCT.
MaxCT == 4

\* Longest series sampled at equally spaced timesteps (SpecUniform); five
\* samples can rise above the melt line twice.
MaxU == 5


\* Most output files in one run of the sampling loop (SpecSample).
MaxFiles == 2

\* Most point-data arrays in one output file.
MaxArrays == 2


\* Largest modification time a watched file gets (SpecWait).
MaxMtime == 3

\* The timeout of wait_for_new_vtk_file, in check intervals.
MaxPolls == 3


\* Most rows and columns of the XY slice (SpecPool).
MaxRows == 3

MaxCols == 2


\* Sample values, in units of 1000/29 K: 0, a peak that only just clears a
\* melt line of 29, and twice that melt line.
Values == {0, 30, 58}

\* melt_temp arguments: the value 30 is just above 29 and exactly on 30.
Thresholds == {29, 30}

\* len(sorted_time) * 10 points in the resampled signal.
OVERSAMPLE == 10

-----------------------------------------------------------------------------
(* float64 arithmetic, exact. *)

Abs(x) == IF x < 0 THEN -x ELSE x

RECURSIVE Gcd(_, _)
Gcd(a, b) == IF b = 0 THEN a ELSE Gcd(b, a % b)

\* The finite value n / d (d # 0) in lowest terms with a positive denominator.
Rat(n, d) ==
    LET g == Gcd(Abs(n), Abs(d))
        s == IF d < 0 THEN -1 ELSE 1
    IN  [nan |-> FALSE, num |-> s * (n \div g), den |-> s * (d \div g)]

NaN == [nan |-> TRUE, num |-> 0, den |-> 1]

FromInt(n) == [nan |-> FALSE, num |-> n, den |-> 1]

FAdd(a, b) ==
    IF a.nan \/ b.nan THEN NaN
    ELSE LET g == Gcd(a.den, b.den)
         IN  Rat(a.num * (b.den \div g) + b.num * (a.den \div g),
                 (a.den \div g) * b.den)

FNeg(a) == IF a.nan THEN NaN ELSE [nan |-> FALSE, num |-> -a.num, den |-> a.den]

FSub(a, b) == FAdd(a, FNeg(b))

\* a - n for an integer n.
FSubInt(a, n) ==
    IF a.nan THEN NaN
    ELSE [nan |-> FALSE, num |-> a.num - n * a.den, den |-> a.den]

FMul(a, b) ==
    IF a.nan \/ b.nan THEN NaN
    ELSE LET g1 == Gcd(Abs(a.num), b.den)
             g2 == Gcd(Abs(b.num), a.den)
         IN  Rat((a.num \div g1) * (b.num \div g2),
                 (a.den \div g2) * (b.den \div g1))

\* a / b for b # 0 (the call sites of the model never divide by zero:
\* interp1d's zero-length segment is handled in CallLinear, and line 83 is
\* guarded by line 82).
FDiv(a, b) ==
    IF a.nan \/ b.nan THEN NaN
    ELSE FMul(a, Rat(b.den, b.num))

\* Comparisons with NaN are False.
FLe(a, b) ==
    /\ ~a.nan /\ ~b.nan
    /\ LET g == Gcd(a.den, b.den)
       IN  a.num * (b.den \div g) <= b.num * (a.den \div g)

FLt(a, b) ==
    /\ ~a.nan /\ ~b.nan
    /\ LET g == Gcd(a.den, b.den)
       IN  a.num * (b.den \div g) < b.num * (a.den \div g)

FGt(a, b) == FLt(b, a)

\* != is True when either side is NaN.
FNe(a, b) == a.nan \/ b.nan \/ a # b

Zero == FromInt(0)

-----------------------------------------------------------------------------
(* Library calls of lines 65-72. *)

Times == 0 .. MaxT

\* The arrangements of the elements of S in a sequence.
RECURSIVE PermsOf(_)
PermsOf(S) ==
    IF S = {} THEN {<<>>}
    ELSE UNION {{Append(p, e) : p \in PermsOf(S \ {e})} : e \in S}

\* The permutations of 1 .. n.
Perms(n) == PermsOf(1 .. n)

\* Mutant of ArgSorts: the samples are used in input order, unsorted.
ArgSorts_InputOrder(t) == {[k \in 1 .. Len(t) |-> k]}

\* np.argsort(time_data), default kind 'quicksort': an index order that sorts
\* the times; the order of equal times is not fixed by numpy.
ArgSorts(t) ==
    {p \in Perms(Len(t)) : \A a, b \in 1 .. Len(t) : a < b => t[p[a]] <= t[p[b]]}

\* array[sorted_indices]
Take(a, p) == [k \in 1 .. Len(a) |-> a[p[k]]]

\* np.linspace(start, stop, num)[k], k = 0 .. num - 1 (num >= 2):
\* start + k * (stop - start) / (num - 1).
Linspace(start, stop, num, k) ==
    Rat(start * (num - 1) + k * (stop - start), num - 1)

\* np.searchsorted(x, xn), side 'left': the number of entries below xn.
SearchSorted(x, xn) ==
    Cardinality({j \in 1 .. Len(x) : x[j] * xn.den < xn.num})

Clip(v, lo, hi) == IF v < lo THEN lo ELSE IF v > hi THEN hi ELSE v

\* interp1d(x, y, kind='linear', fill_value='extrapolate')(xn) for xn within
\* [x[0], x[-1]]: scipy's _call_linear (extrapolation rules out the np.interp
\* path). A zero-length bracket is only chosen for xn = x[0] = x[1], where
\* slope is inf or nan and slope * 0 is nan.
CallLinear(x, y, xn) ==
    LET hi   == Clip(SearchSorted(x, xn), 1, Len(x) - 1) + 1
        lo   == hi - 1
    IN  IF x[hi] = x[lo] THEN NaN
        ELSE \* slope * (xn - x_lo) + y_lo with slope = (y_hi - y_lo) / (x_hi - x_lo),
             \* over the common denominator (x_hi - x_lo) * xn.den.
             Rat((y[hi] - y[lo]) * (xn.num - x[lo] * xn.den)
                     + y[lo] * (x[hi] - x[lo]) * xn.den,
                 (x[hi] - x[lo]) * xn.den)

-----------------------------------------------------------------------------
(* find_melt_line_crossings, lines 52-115. *)

\* Line 70: len(time_interp).
NumInterp == Len(sorted_time) * OVERSAMPLE

\* The arrays of lines 70-75 are fixed once built: entry k (from 0, as in the
\* code) is a function of the sorted samples.
time_interp(k) ==
    Linspace(sorted_time[1], sorted_time[Len(sorted_time)], NumInterp, k)

temp_interp(k) == CallLinear(sorted_time, sorted_temp, time_interp(k))

diff(k) == FSubInt(temp_interp(k), melt_temp)

\* Mutant of SignChange: strict comparisons on both sides, so a point exactly
\* on the melt line never takes part in a crossing.
SignChange_Strict(d0, d1) ==
    \/ FLt(d0, Zero) /\ FGt(d1, Zero)
    \/ FGt(d0, Zero) /\ FLt(d1, Zero)

\* Mutant of SignChange: a value equal to the melt line counts as above it.
SignChange_AtOrAbove(d0, d1) ==
    \/ FLt(d0, Zero) /\ FLe(Zero, d1)
    \/ FLe(Zero, d0) /\ FLt(d1, Zero)

\* Mutant of SignChange: a point on the melt line counts on both sides.
SignChange_Inclusive(d0, d1) ==
    \/ FLe(d0, Zero) /\ FLe(Zero, d1)
    \/ FLe(Zero, d0) /\ FLe(d1, Zero)

\* Line 80.
SignChange(d0, d1) ==
    \/ FLe(d0, Zero) /\ FGt(d1, Zero)
    \/ FGt(d0, Zero) /\ FLe(d1, Zero)

\* Line 84.
CrossingType(d0, d1) ==
    IF FLe(d0, Zero) /\ FGt(d1, Zero) THEN "up" ELSE "down"

\* Mutant of CrossingTime: interpolates from the value at the far end of the
\* pair.
CrossingTime_FromNext(k) ==
    FAdd(time_interp(k),
         FDiv(FMul(FSub(FromInt(melt_temp), temp_interp(k + 1)),
                   FSub(time_interp(k + 1), time_interp(k))),
              FSub(temp_interp(k + 1), temp_interp(k))))

\* Mutant of CrossingTime: the sign of the correction term is flipped.
CrossingTime_SignFlipped(k) ==
    FAdd(time_interp(k),
         FDiv(FMul(FSub(temp_interp(k), FromInt(melt_temp)),
                   FSub(time_interp(k + 1), time_interp(k))),
              FSub(temp_interp(k + 1), temp_interp(k))))


\* Line 83, for the grid pair (k, k + 1).
CrossingTime(k) ==
    FAdd(time_interp(k),
         FDiv(FMul(FSub(FromInt(melt_temp), temp_interp(k)),
                   FSub(time_interp(k + 1), time_interp(k))),
              FSub(temp_interp(k + 1), temp_interp(k))))

\* Mutant of UpDownPair: an up crossing is paired with whatever follows it.
UpDownPair_AnyNext(current_crossing, next_crossing) ==
    current_crossing.type = "up"

\* Line 99.
UpDownPair(current_crossing, next_crossing) ==
    current_crossing.type = "up" /\ next_crossing.type = "down"

\* Mutant of Period: spikes numbered from 0.
Period_ZeroBased(current_crossing, next_crossing, periods) ==
    [start_time   |-> current_crossing.time,
     end_time     |-> next_crossing.time,
     duration     |-> FSub(next_crossing.time, current_crossing.time),
     spike_number |-> Len(periods)]

\* Mutant of Period: start and end exchanged.
Period_Swapped(current_crossing, next_crossing, periods) ==
    [start_time   |-> next_crossing.time,
     end_time     |-> current_crossing.time,
     duration     |-> FSub(current_crossing.time, next_crossing.time),
     spike_number |-> Len(periods) + 1]

\* Mutant of Period: the spike is numbered by the pairing cursor.
Period_NumberedByCursor(current_crossing, next_crossing, periods) ==
    [start_time   |-> current_crossing.time,
     end_time     |-> next_crossing.time,
     duration     |-> FSub(next_crossing.time, current_crossing.time),
     spike_number |-> i + 1]


\* Lines 100-106.
Period(current_crossing, next_crossing, periods) ==
    [start_time   |-> current_crossing.time,
     end_time     |-> next_crossing.time,
     duration     |-> FSub(next_crossing.time, current_crossing.time),
     spike_number |-> Len(periods) + 1]

\* Mutant of PairLoopCondition: the loop stops one crossing early.
PairLoopCondition_OffByOne == i < Len(crossings) - 2

\* Line 94.
PairLoopCondition == i < Len(crossings) - 1

\* Lines 112-115.
Result ==
    <<[k \in 1 .. Len(crossings) |-> crossings[k].time],
      [k \in 1 .. Len(crossings) |-> crossings[k].type],
      time_above_melt_periods>>

\* The caller's series: samples in time order, handed over in that order,
\* reversed, or rotated by one (so unsorted inputs occur).
SortedSeries(n) ==
    {s \in [1 .. n -> Times \X Values] :
        \A k \in 1 .. n - 1 : s[k][1] <= s[k + 1][1]}

Shuffles(n) ==
    {[k \in 1 .. n |-> k],
     [k \in 1 .. n |-> n + 1 - k],
     [k \in 1 .. n |-> (k % n) + 1]}

Init ==
    /\ \E n \in 0 .. MaxN :
          \E s \in SortedSeries(n), p \in Shuffles(n) :
             /\ time_data = [k \in 1 .. n |-> s[p[k]][1]]
             /\ temp_data = [k \in 1 .. n |-> s[p[k]][2]]
    /\ melt_temp \in Thresholds
    /\ pc = "start"
    /\ sorted_time = <<>>
    /\ sorted_temp = <<>>
    /\ i = 0
    /\ crossings = <<>>
    /\ time_above_melt_periods = <<>>
    /\ returned = <<>>
    /\ log = <<>>
    /\ SamplerIdle
    /\ AnalyzerIdle

\* Lines 57-62.
CheckLength ==
    /\ pc = "start"
    /\ IF Len(time_data) < 2
       THEN /\ log' = log \o <<"analyzing", "not_enough">>
            /\ returned' = <<<<>>, <<>>, <<>>>>
            /\ pc' = "done"
       ELSE /\ log' = Append(log, "analyzing")
            /\ returned' = returned
            /\ pc' = "sort"
    /\ UNCHANGED <<time_data, temp_data, melt_temp, sorted_time, sorted_temp,
                   i, crossings,
                   time_above_melt_periods>>
    /\ UNCHANGED <<samplerVars, analyzerVars>>

\* Mutant of Sort: the caller's arrays are sorted in place.
Sort_InPlace ==
    /\ pc = "sort"
    /\ \E sorted_indices \in ArgSorts(time_data) :
          /\ sorted_time' = Take(time_data, sorted_indices)
          /\ sorted_temp' = Take(temp_data, sorted_indices)
    /\ time_data' = sorted_time'
    /\ temp_data' = sorted_temp'
    /\ pc' = "interp"
    /\ UNCHANGED <<melt_temp, i, crossings, time_above_melt_periods,
                   returned, log>>
    /\ UNCHANGED <<samplerVars, analyzerVars>>


\* Lines 65-67.
Sort ==
    /\ pc = "sort"
    /\ \E sorted_indices \in ArgSorts(time_data) :
          /\ sorted_time' = Take(time_data, sorted_indices)
          /\ sorted_temp' = Take(temp_data, sorted_indices)
    /\ pc' = "interp"
    /\ UNCHANGED <<time_data, temp_data, melt_temp, i, crossings,
                   time_above_melt_periods, returned, log>>
    /\ UNCHANGED <<samplerVars, analyzerVars>>

\* Lines 70-76.
Interpolate ==
    /\ pc = "interp"
    /\ crossings' = <<>>
    /\ i' = 0
    /\ pc' = "scan"
    /\ UNCHANGED <<time_data, temp_data, melt_temp, sorted_time, sorted_temp,
                   time_above_melt_periods, returned, log>>
    /\ UNCHANGED <<samplerVars, analyzerVars>>

\* Lines 78-85: one iteration of the detection loop.
ScanStep ==
    /\ pc = "scan"
    /\ i < NumInterp - 1
    /\ crossings' =
          IF SignChange(diff(i), diff(i + 1)) /\ FNe(diff(i + 1), diff(i))
          THEN Append(crossings, [time |-> CrossingTime(i),
                                  type |-> CrossingType(diff(i), diff(i + 1))])
          ELSE crossings
    /\ i' = i + 1
    /\ UNCHANGED <<time_data, temp_data, melt_temp, pc, sorted_time,
                   sorted_temp, time_above_melt_periods, returned, log>>
    /\ UNCHANGED <<samplerVars, analyzerVars>>

\* Lines 87-93: the detection loop is over; the pairing cursor starts at 0.
ScanEnd ==
    /\ pc = "scan"
    /\ ~(i < NumInterp - 1)
    /\ log' = Append(log, "found")
    /\ time_above_melt_periods' = <<>>
    /\ i' = 0
    /\ pc' = "pair"
    /\ UNCHANGED <<time_data, temp_data, melt_temp, sorted_time, sorted_temp,
                   crossings, returned>>
    /\ UNCHANGED <<samplerVars, analyzerVars>>

\* Mutant of PairStep: the cursor stays put when no pair is found.
PairStep_NoAdvance ==
    /\ pc = "pair"
    /\ PairLoopCondition
    /\ LET current_crossing == crossings[i + 1]
           next_crossing    == crossings[i + 2]
       IN  IF UpDownPair(current_crossing, next_crossing)
           THEN /\ time_above_melt_periods' =
                      Append(time_above_melt_periods,
                             Period(current_crossing, next_crossing,
                                    time_above_melt_periods))
                /\ log' = Append(log, "spike")
                /\ i' = i + 2
           ELSE /\ time_above_melt_periods' = time_above_melt_periods
                /\ log' = log
                /\ i' = i
    /\ UNCHANGED <<time_data, temp_data, melt_temp, pc, sorted_time,
                   sorted_temp, crossings, returned>>
    /\ UNCHANGED <<samplerVars, analyzerVars>>


\* Mutant of PairStep: after an emitted pair the cursor moves by one only.
PairStep_AdvanceOne ==
    /\ pc = "pair"
    /\ PairLoopCondition
    /\ LET current_crossing == crossings[i + 1]
           next_crossing    == crossings[i + 2]
       IN  IF UpDownPair(current_crossing, next_crossing)
           THEN /\ time_above_melt_periods' =
                      Append(time_above_melt_periods,
                             Period(current_crossing, next_crossing,
                                    time_above_melt_periods))
                /\ log' = Append(log, "spike")
           ELSE /\ time_above_melt_periods' = time_above_melt_periods
                /\ log' = log
    /\ i' = i + 1
    /\ UNCHANGED <<time_data, temp_data, melt_temp, pc, sorted_time,
                   sorted_temp, crossings, returned>>
    /\ UNCHANGED <<samplerVars, analyzerVars>>


\* Lines 94-110: one iteration of the pairing loop.
PairStep ==
    /\ pc = "pair"
    /\ PairLoopCondition
    /\ LET current_crossing == crossings[i + 1]
           next_crossing    == crossings[i + 2]
       IN  IF UpDownPair(current_crossing, next_crossing)
           THEN /\ time_above_melt_periods' =
                      Append(time_above_melt_periods,
                             Period(current_crossing, next_crossing,
                                    time_above_melt_periods))
                /\ log' = Append(log, "spike")
                /\ i' = i + 2
           ELSE /\ time_above_melt_periods' = time_above_melt_periods
                /\ log' = log
                /\ i' = i + 1
    /\ UNCHANGED <<time_data, temp_data, melt_temp, pc, sorted_time,
                   sorted_temp, crossings, returned>>
    /\ UNCHANGED <<samplerVars, analyzerVars>>

\* Lines 94, 112-115: the pairing loop is over; return.
PairEnd ==
    /\ pc = "pair"
    /\ ~PairLoopCondition
    /\ returned' = Result
    /\ pc' = "done"
    /\ UNCHANGED <<time_data, temp_data, melt_temp, sorted_time, sorted_temp,
                   i, crossings,
                   time_above_melt_periods, log>>
    /\ UNCHANGED <<samplerVars, analyzerVars>>

Next ==
    \/ CheckLength
    \/ Sort
    \/ Interpolate
    \/ ScanStep
    \/ ScanEnd
    \/ PairStep
    \/ PairEnd

Spec == Init /\ [][Next]_vars

-----------------------------------------------------------------------------
(* The pairing loop (lines 89-110) on its own, for every crossing list with *)
(* non-decreasing times, runs of equal directions included.                 *)

CrossingLists ==
    UNION {{c \in [1 .. n -> [time : {FromInt(t) : t \in 1 .. MaxCT},
                              type : {"up", "down"}]] :
               \A k \in 1 .. n - 1 : FLe(c[k].time, c[k + 1].time)}
           : n \in 0 .. MaxC}

InitPair ==
    /\ crossings \in CrossingLists
    /\ time_data = <<>>
    /\ temp_data = <<>>
    /\ melt_temp = 0
    /\ pc = "pair"
    /\ sorted_time = <<>>
    /\ sorted_temp = <<>>
    /\ i = 0
    /\ time_above_melt_periods = <<>>
    /\ returned = <<>>
    /\ log = <<>>
    /\ SamplerIdle
    /\ AnalyzerIdle

NextPair ==
    \/ PairStep
    \/ PairEnd

SpecPair == InitPair /\ [][NextPair]_vars

\* The caller's series when the output files are equally spaced in time:
\* the timesteps 0, 1, 2, ... in order.  With four samples the 39 steps of the
\* resampling grid hit the two inner samples exactly.
InitUniform ==
    /\ \E n \in 0 .. MaxU :
          /\ time_data = [k \in 1 .. n |-> k - 1]
          /\ temp_data \in [1 .. n -> Values]
    /\ melt_temp \in Thresholds
    /\ pc = "start"
    /\ sorted_time = <<>>
    /\ sorted_temp = <<>>
    /\ i = 0
    /\ crossings = <<>>
    /\ time_above_melt_periods = <<>>
    /\ returned = <<>>
    /\ log = <<>>
    /\ SamplerIdle
    /\ AnalyzerIdle

SpecUniform == InitUniform /\ [][Next]_vars

\* The caller's statistics (plot_temperature_history_with_melt_analysis),
\* computed from the tuple the extractor returned at line 227.

\* Mutant of PyMax: the last element instead of the largest.
PyMax_Last(s) == s[Len(s)]

\* Python's max over a non-empty list: the first largest element.
RECURSIVE PyMaxFrom(_, _, _)
PyMaxFrom(s, k, best) ==
    IF k > Len(s) THEN best
    ELSE PyMaxFrom(s, k + 1, IF FGt(s[k], best) THEN s[k] ELSE best)

PyMax(s) == PyMaxFrom(s, 2, s[1])

\* Python's sum over a list: 0 + s[1] + s[2] + ...
RECURSIVE PySumFrom(_, _, _)
PySumFrom(s, k, acc) ==
    IF k > Len(s) THEN acc
    ELSE PySumFrom(s, k + 1, FAdd(acc, s[k]))

PySum(s) == PySumFrom(s, 1, Zero)

\* [p['duration'] for p in time_above_melt_periods]
Durations(periods) == [k \in 1 .. Len(periods) |-> periods[k].duration]

\* Line 266.
total_crossings == Len(returned[1])

\* Line 267.
total_spikes == Len(returned[3])

\* Lines 268-273.
max_time_above_melt ==
    IF returned[3] # <<>> THEN PyMax(Durations(returned[3])) ELSE Zero

\* Lines 268-273.
total_time_above_melt ==
    IF returned[3] # <<>> THEN PySum(Durations(returned[3])) ELSE Zero

\* Line 315: max(time_above_melt_periods, key=duration), the first period of
\* the largest duration; evaluated only when there are periods (line 306).
RECURSIVE MaxByDurationFrom(_, _, _)
MaxByDurationFrom(periods, k, best) ==
    IF k > Len(periods) THEN best
    ELSE MaxByDurationFrom(periods, k + 1,
                           IF FGt(periods[k].duration, best.duration)
                           THEN periods[k] ELSE best)

max_spike == MaxByDurationFrom(returned[3], 2, returned[3][1])

\* The sampling loop of plot_temperature_history_with_melt_analysis (lines
\* 209-215) and extract_temperature_at_point (lines 117-154).

\* Point-data arrays an output file may hold: two of the candidate
\* temperature names, a scalar field and a vector field.
PointArrays ==
    {[name |-> "T", components |-> 1],
     [name |-> "temp", components |-> 1],
     [name |-> "p", components |-> 1],
     [name |-> "U", components |-> 3]}

\* The key lists of a point_data dictionary: distinct names, in file order.
PointData ==
    UNION {{a \in [1 .. n -> PointArrays] :
               \A j, k \in 1 .. n : j # k => a[j].name # a[k].name} :
           n \in 0 .. MaxArrays}

\* Line 135.
temp_field_names ==
    <<"T", "Temperature", "temperature", "TEMPERATURE", "temp", "Temp">>

None == [is_none |-> TRUE, field |-> "", timestep |-> 0]

\* float(point_data[field][closest_point_id]): the value read from that
\* field of that file; a vector value makes float() raise.
Float(array, file) ==
    [is_none |-> FALSE, field |-> array.name, timestep |-> file.timestep]

HasField(point_data, field_name) ==
    \E k \in 1 .. Len(point_data) : point_data[k].name = field_name

Field(point_data, field_name) ==
    point_data[CHOOSE k \in 1 .. Len(point_data) :
                   point_data[k].name = field_name]

\* Lines 138-141: the first candidate name, in list order, the file holds;
\* 0 when it holds none of them.
RECURSIVE FirstCandidate(_, _)
FirstCandidate(point_data, k) ==
    IF k > Len(temp_field_names) THEN 0
    ELSE IF HasField(point_data, temp_field_names[k]) THEN k
    ELSE FirstCandidate(point_data, k + 1)

\* Mutant of extract_temperature_at_point: no fallback to the first array.
extract_temperature_at_point_NoFallback(file) ==
    IF ~file.readable THEN None
    ELSE LET point_data == file.point_data
             k == FirstCandidate(point_data, 1)
         IN  IF k = 0 THEN None
             ELSE LET array == Field(point_data, temp_field_names[k])
                  IN  IF array.components = 1 THEN Float(array, file)
                      ELSE None

\* Lines 117-154.  A file that cannot be read, or a value float() rejects,
\* raises inside the try block and gives None (lines 152-154).
extract_temperature_at_point(file) ==
    IF ~file.readable THEN None
    ELSE LET point_data == file.point_data
             k == FirstCandidate(point_data, 1)
         IN  IF k = 0 /\ point_data = <<>> THEN None
             ELSE LET array == IF k # 0
                               THEN Field(point_data, temp_field_names[k])
                               ELSE point_data[1]
                  IN  IF array.components = 1 THEN Float(array, file)
                      ELSE None

ExtractorIdle ==
    /\ time_data = <<>>
    /\ temp_data = <<>>
    /\ melt_temp = 0
    /\ pc = "idle"
    /\ sorted_time = <<>>
    /\ sorted_temp = <<>>
    /\ i = 0
    /\ crossings = <<>>
    /\ time_above_melt_periods = <<>>
    /\ returned = <<>>
    /\ log = <<>>

\* What reading one output file gives: its point-data arrays, or a failure
\* (pv.read returns None or raises).
FileContents ==
    {[readable |-> TRUE, point_data |-> d] : d \in PointData}
        \cup {[readable |-> FALSE, point_data |-> <<>>]}

\* Line 205: the files found, in timestep order, before the loop starts;
\* the k-th file carries timestep k.
InitSample ==
    /\ \E n \in 1 .. MaxFiles :
          \E f \in [1 .. n -> FileContents] :
             vtk_files = [k \in 1 .. n |->
                             [timestep   |-> k,
                              readable   |-> f[k].readable,
                              point_data |-> f[k].point_data]]
    /\ file_index = 0
    /\ timesteps = <<>>
    /\ temperatures = <<>>
    /\ sampling = "loop"
    /\ ExtractorIdle
    /\ AnalyzerIdle

\* Lines 209-215: one iteration of the loop over the files.
ProcessFile ==
    /\ sampling = "loop"
    /\ file_index < Len(vtk_files)
    /\ LET vtk_file == vtk_files[file_index + 1]
           temperature == extract_temperature_at_point(vtk_file)
       IN  IF temperature # None
           THEN /\ timesteps' = Append(timesteps, vtk_file.timestep)
                /\ temperatures' = Append(temperatures, temperature)
           ELSE /\ timesteps' = timesteps
                /\ temperatures' = temperatures
    /\ file_index' = file_index + 1
    /\ UNCHANGED <<vtk_files, sampling>>
    /\ UNCHANGED <<extractorVars, analyzerVars>>

\* Lines 217-219: no file gave a value; the analysis is given up.
NoTemperatureData ==
    /\ sampling = "loop"
    /\ file_index = Len(vtk_files)
    /\ temperatures = <<>>
    /\ sampling' = "no_data"
    /\ UNCHANGED <<vtk_files, file_index, timesteps, temperatures>>
    /\ UNCHANGED <<extractorVars, analyzerVars>>

\* Lines 222-227: the series goes on to the melt-line analysis.
SeriesReady ==
    /\ sampling = "loop"
    /\ file_index = Len(vtk_files)
    /\ temperatures # <<>>
    /\ sampling' = "analyse"
    /\ UNCHANGED <<vtk_files, file_index, timesteps, temperatures>>
    /\ UNCHANGED <<extractorVars, analyzerVars>>

NextSample ==
    \/ ProcessFile
    \/ NoTemperatureData
    \/ SeriesReady

SpecSample == InitSample /\ [][NextSample]_vars

\* wait_for_new_vtk_file and find_latest_vtk_file (enhanced_vtk_analyzer.py,
\* lines 540-594).  Time is counted in check intervals: every sleep of the
\* loop advances the clock by one.  A poll sees the directory as it is at
\* that moment; files are written and removed between polls.

\* The files that can be in the watched directory, in the order glob lists
\* them.
FileNames == <<"a.vtk", "b.vtk">>

FileSet == {FileNames[k] : k \in 1 .. Len(FileNames)}

\* Python's None where a file name is expected.
NoFile == "None"

timeout == MaxPolls

\* Lines 547-552: the files glob finds; a file with mtime 0 does not exist.
GlobFiles == SelectSeq(FileNames, LAMBDA f : mtimes[f] > 0)

\* Line 559: max(vtk_files, key=os.path.getmtime), the first file of the
\* largest modification time.
RECURSIVE LatestFrom(_, _, _)
LatestFrom(vtk_files_, k, best) ==
    IF k > Len(vtk_files_) THEN best
    ELSE LatestFrom(vtk_files_, k + 1,
                    IF mtimes[vtk_files_[k]] > mtimes[best]
                    THEN vtk_files_[k] ELSE best)

\* Lines 540-562.
find_latest_vtk_file ==
    IF GlobFiles = <<>> THEN NoFile
    ELSE LatestFrom(GlobFiles, 2, GlobFiles[1])

\* Line 583.
last_mtime == IF mtimes[last_file] > 0 THEN mtimes[last_file] ELSE 0

\* Mutant of NewerThanLast: the latest file is accepted whatever its age.
NewerThanLast_AnyOther(current_latest) == current_latest # last_file

\* Lines 581-585.
NewerThanLast(current_latest) ==
    /\ current_latest # last_file
    /\ mtimes[current_latest] > last_mtime

\* Line 566: the call starts; files of any age may be there already.
InitWait ==
    /\ mtimes \in [FileSet -> 0 .. MaxMtime]
    /\ written = {}
    /\ last_file \in FileSet \cup {NoFile}
    /\ now = 0
    /\ wait_pc = "polling"
    /\ wait_result = NoFile
    /\ poll_outcome = "none"
    /\ ExtractorIdle
    /\ SamplerIdle
    /\ MainIdle
    /\ GridIdle
    /\ PoolIdle

\* Lines 568-589: one iteration of the loop that raises nothing.
Poll ==
    /\ wait_pc = "polling"
    /\ now < timeout
    /\ LET current_latest == find_latest_vtk_file
       IN  IF current_latest # NoFile
              /\ (last_file = NoFile \/ NewerThanLast(current_latest))
           THEN /\ wait_result' = current_latest
                /\ wait_pc' = "returned"
                /\ poll_outcome' = "returned"
                /\ now' = now
           ELSE /\ wait_result' = wait_result
                /\ wait_pc' = wait_pc
                /\ poll_outcome' = "slept"
                /\ now' = now + 1
    /\ UNCHANGED <<mtimes, written, last_file>>
    /\ UNCHANGED <<extractorVars, samplerVars, mainVars, gridVars, poolVars>>

\* Lines 590-592: an iteration in which a file-system call raises.
PollRaises ==
    /\ wait_pc = "polling"
    /\ now < timeout
    /\ poll_outcome' = "raised"
    /\ now' = now + 1
    /\ UNCHANGED <<mtimes, written, last_file, wait_pc, wait_result>>
    /\ UNCHANGED <<extractorVars, samplerVars, mainVars, gridVars, poolVars>>

\* Lines 568, 594: the timeout has elapsed.
Timeout ==
    /\ wait_pc = "polling"
    /\ ~(now < timeout)
    /\ wait_result' = NoFile
    /\ wait_pc' = "returned"
    /\ UNCHANGED <<mtimes, written, last_file, now, poll_outcome>>
    /\ UNCHANGED <<extractorVars, samplerVars, mainVars, gridVars, poolVars>>

\* The solver writes a file: it appears, or is modified again, with a later
\* modification time than it had.
FileWritten ==
    /\ wait_pc = "polling"
    /\ \E f \in FileSet, t \in 1 .. MaxMtime :
          /\ t > mtimes[f]
          /\ mtimes' = [mtimes EXCEPT ![f] = t]
          /\ written' = written \cup {f}
    /\ UNCHANGED <<last_file, now, wait_pc, wait_result, poll_outcome>>
    /\ UNCHANGED <<extractorVars, samplerVars, mainVars, gridVars, poolVars>>

\* A file is removed from the directory.
FileRemoved ==
    /\ wait_pc = "polling"
    /\ \E f \in FileSet :
          /\ mtimes[f] > 0
          /\ mtimes' = [mtimes EXCEPT ![f] = 0]
    /\ UNCHANGED <<written, last_file, now, wait_pc, wait_result,
                   poll_outcome>>
    /\ UNCHANGED <<extractorVars, samplerVars, mainVars, gridVars, poolVars>>

NextWait ==
    \/ Poll
    \/ PollRaises
    \/ Timeout
    \/ FileWritten
    \/ FileRemoved

SpecWait == InitWait /\ [][NextWait]_vars

\* The loop of main over the candidate array names
\* (enhanced_vtk_analyzer.py, lines 804-852).

\* The values of --array-name tried.
ArrayNames == {"meltHistory", "alpha.metal"}

\* Line 806.
array_attempts == <<array_name, "meltHistory", "Temperature", "temp", "T">>

\* How one pass of the loop body can go: analyze_melt_pool_xy_plane raises
\* (line 813), visualize_xy_analysis raises (line 822), one of the prints of
\* the verbose report raises (lines 826-830; they are the first output of
\* main that is not ASCII, so they raise UnicodeEncodeError on a console
\* whose encoding has no check mark), or the body reaches sys.exit(0).
\* analyze_melt_pool_xy_plane returns a non-empty dict or raises, so the
\* test of line 821 is always true.
AttemptOutcomes ==
    {"analysis_raises", "visualization_raises", "report_raises", "completed"}

\* Outcomes in which line 823 has been executed.
PastVisualization == {"report_raises", "completed"}

InitMain ==
    /\ array_name \in ArrayNames
    /\ verbose \in BOOLEAN
    /\ attempted = <<>>
    /\ attempt_outcomes = <<>>
    /\ analysis_successful = FALSE
    /\ exit_code = Running
    /\ ExtractorIdle
    /\ SamplerIdle
    /\ WaitIdle
    /\ GridIdle
    /\ PoolIdle

\* Lines 808-838: one pass of the loop body.  SystemExit is not an
\* Exception, so sys.exit(0) on line 834 leaves the loop and the process.
Attempt ==
    /\ exit_code = Running
    /\ Len(attempted) < Len(array_attempts)
    /\ \E outcome \in AttemptOutcomes :
          /\ outcome = "report_raises" => verbose
          /\ attempted' = Append(attempted,
                                 array_attempts[Len(attempted) + 1])
          /\ attempt_outcomes' = Append(attempt_outcomes, outcome)
          /\ analysis_successful' =
                (analysis_successful \/ outcome \in PastVisualization)
          /\ exit_code' = IF outcome = "completed" THEN 0 ELSE exit_code
    /\ UNCHANGED <<array_name, verbose>>
    /\ UNCHANGED <<extractorVars, samplerVars, waitVars, gridVars, poolVars>>

\* Lines 840-852 and the end of main: after the last name, exit code 1
\* unless analysis_successful was set; otherwise main returns and the
\* interpreter exits with code 0.
LoopExhausted ==
    /\ exit_code = Running
    /\ Len(attempted) = Len(array_attempts)
    /\ exit_code' = IF ~analysis_successful THEN 1 ELSE 0
    /\ UNCHANGED <<array_name, verbose, attempted, attempt_outcomes,
                   analysis_successful>>
    /\ UNCHANGED <<extractorVars, samplerVars, waitVars, gridVars, poolVars>>

NextMain ==
    \/ Attempt
    \/ LoopExhausted

SpecMain == InitMain /\ [][NextMain]_vars

\* convert_to_structured_grid (enhanced_vtk_analyzer.py, lines 142-213).
\* The probe output is taken to carry the point-data arrays of the file, in
\* file order; an array is identified by its position, 0 standing for None.

\* Point-data arrays a file may hold: two scalar fields, a vector field and
\* a scalar array without a name.
GridArrays ==
    {[name |-> "meltHistory", components |-> 1],
     [name |-> "T", components |-> 1],
     [name |-> "U", components |-> 3],
     [name |-> "", components |-> 1]}

\* The array names asked for.
RequestedNames ==
    {"meltHistory", "MELTHISTORY", "T", "temp", "Temperature", "alpha"}

\* Lines 129-137: the name get_available_arrays gives the array at index
\* k - 1 when it has none.
ArrayIndexName(k) == <<"Array_0", "Array_1", "Array_2", "Array_3">>[k]

\* str.lower() of the names above, as sequences of characters.
Lower(name) ==
    CASE name \in {"meltHistory", "MELTHISTORY"}
            -> <<"m", "e", "l", "t", "h", "i", "s", "t", "o", "r", "y">>
      [] name = "T" -> <<"t">>
      [] name = "U" -> <<"u">>
      [] name = "temp" -> <<"t", "e", "m", "p">>
      [] name = "Temperature"
            -> <<"t", "e", "m", "p", "e", "r", "a", "t", "u", "r", "e">>
      [] name = "alpha" -> <<"a", "l", "p", "h", "a">>
      [] name = "Array_0" -> <<"a", "r", "r", "a", "y", "_", "0">>
      [] name = "Array_1" -> <<"a", "r", "r", "a", "y", "_", "1">>
      [] name = "Array_2" -> <<"a", "r", "r", "a", "y", "_", "2">>
      [] name = "Array_3" -> <<"a", "r", "r", "a", "y", "_", "3">>

\* Python's "a in b" for strings.
In(a, b) ==
    \E k \in 0 .. Len(b) - Len(a) : SubSeq(b, k + 1, k + Len(a)) = a

\* Lines 124-140.
get_available_arrays ==
    [k \in 1 .. Len(point_arrays) |->
        IF point_arrays[k].name = "" THEN ArrayIndexName(k)
        ELSE point_arrays[k].name]

\* GetPointData().GetArray(name): the first array of that name, or None.
RECURSIVE GetArrayFrom(_, _)
GetArrayFrom(name, k) ==
    IF k > Len(point_arrays) THEN 0
    ELSE IF point_arrays[k].name = name THEN k
    ELSE GetArrayFrom(name, k + 1)

GetArray(name) == GetArrayFrom(name, 1)

\* Mutant of PartialMatch: only names that contain the requested name.
PartialMatch_OneWay(arr_name) ==
    In(Lower(requested_array), Lower(arr_name))

\* Line 189.
PartialMatch(arr_name) ==
    \/ In(Lower(requested_array), Lower(arr_name))
    \/ In(Lower(arr_name), Lower(requested_array))

\* Lines 188-192: the loop stops at the first name that matches.
RECURSIVE PartialFrom(_, _)
PartialFrom(available_arrays, k) ==
    IF k > Len(available_arrays) THEN 0
    ELSE IF PartialMatch(available_arrays[k])
         THEN GetArray(available_arrays[k])
    ELSE PartialFrom(available_arrays, k + 1)

\* Lines 180-199: the array the chain ends with, 0 for None.
array_data ==
    LET exact == GetArray(requested_array)
        available_arrays == get_available_arrays
        partial == PartialFrom(available_arrays, 1)
    IN  IF exact # 0 THEN exact
        ELSE IF partial # 0 THEN partial
        ELSE IF available_arrays # <<>> THEN GetArray(available_arrays[1])
        ELSE 0

\* Line 210: the call returns the data of the array at position k.
Returned(k) == [kind |-> "data", array |-> k, cause |-> ""]

\* Lines 212-213: the call raises RuntimeError and returns nothing.
Failed(cause) == [kind |-> "error", array |-> 0, cause |-> cause]

\* Lines 147-213 after the probe: ValueError when the chain ends with None
\* (line 202), ValueError from reshape when the array has more than one
\* component (line 208); both leave as RuntimeError (line 213).
convert_to_structured_grid ==
    IF array_data = 0 THEN Failed("no suitable array")
    ELSE IF point_arrays[array_data].components # 1
         THEN Failed("reshape")
    ELSE Returned(array_data)

InitGrid ==
    /\ requested_array \in RequestedNames
    /\ point_arrays \in UNION {[1 .. n -> GridArrays] : n \in 0 .. MaxArrays}
    /\ grid_pc = "start"
    /\ grid_outcome = <<>>
    /\ ExtractorIdle
    /\ SamplerIdle
    /\ WaitIdle
    /\ MainIdle
    /\ PoolIdle

\* Lines 147-213: one call; the steps before the lookup (lines 148-177) may
\* raise.
Convert ==
    /\ grid_pc = "start"
    /\ \E probe_raises \in BOOLEAN :
          grid_outcome' = IF probe_raises THEN Failed("probe")
                          ELSE convert_to_structured_grid
    /\ grid_pc' = "done"
    /\ UNCHANGED <<requested_array, point_arrays>>
    /\ UNCHANGED <<extractorVars, samplerVars, waitVars, mainVars, poolVars>>

NextGrid == Convert

SpecGrid == InitGrid /\ [][NextGrid]_vars

\* analyze_melt_pool_xy_plane (enhanced_vtk_analyzer.py, lines 215-339),
\* from the XY slice on.  Rows and columns are numbered from 1; row k is at
\* y = 2 * (k - 1) and column k at x = k - 1, the uniform grids of lines
\* 154-155, so that y_reference can fall on a row, half way between two rows
\* or outside the domain.

\* Values of the analysed array in the slice.
CellValues == {1, 2}

PoolThresholds == {0, 1}

\* Lines 154-155.
x(k) == k - 1

y(k) == 2 * (k - 1)

\* Line 237: np.argmin(np.abs(y - y_reference)), the first row of least
\* distance.
RECURSIVE ArgMinFrom(_, _)
ArgMinFrom(k, best) ==
    IF k > Len(xy_slice) THEN best
    ELSE ArgMinFrom(k + 1,
                    IF Abs(y(k) - y_reference) < Abs(y(best) - y_reference)
                    THEN k ELSE best)

y_ref_idx == ArgMinFrom(2, 1)

\* Line 238.
actual_y_ref == y(y_ref_idx)

\* Mutant of AnyAbove: values equal to the threshold count as melted.
AnyAbove_Inclusive(y_profile) ==
    \E c \in 1 .. Len(y_profile) : y_profile[c] >= threshold

\* Lines 242, 244, 261, 278: np.any(profile > threshold).
AnyAbove(y_profile) ==
    \E c \in 1 .. Len(y_profile) : y_profile[c] > threshold

\* Lines 245-247: the first and last column of the reference row above the
\* threshold.
x_indices ==
    {c \in 1 .. Len(xy_slice[y_ref_idx]) :
        AnyAbove(<<xy_slice[y_ref_idx][c]>>)}

MinOf(S) == CHOOSE k \in S : \A j \in S : k <= j

MaxOf(S) == CHOOSE k \in S : \A j \in S : k >= j

\* Lines 244-251.
width_start_x ==
    IF AnyAbove(xy_slice[y_ref_idx]) THEN x(MinOf(x_indices))
    ELSE actual_y_ref

width_end_x ==
    IF AnyAbove(xy_slice[y_ref_idx]) THEN x(MaxOf(x_indices))
    ELSE actual_y_ref

width ==
    IF AnyAbove(xy_slice[y_ref_idx]) THEN width_end_x - width_start_x
    ELSE 0

\* Lines 254-266: the scan towards the last row.
RECURSIVE DepthScan(_)
DepthScan(k) ==
    IF k > Len(xy_slice) THEN y(Len(xy_slice))
    ELSE IF ~AnyAbove(xy_slice[k]) THEN y(k)
    ELSE DepthScan(k + 1)

depth_end_y == DepthScan(y_ref_idx)

\* Line 268.
depth == Abs(y_reference - depth_end_y)

\* Lines 271-284: the scan towards the first row.
RECURSIVE HeightScan(_)
HeightScan(k) ==
    IF k < 1 THEN y(1)
    ELSE IF ~AnyAbove(xy_slice[k]) THEN y(k)
    ELSE HeightScan(k - 1)

height_end_y == HeightScan(y_ref_idx)

\* Line 286.
height == Abs(y_reference - height_end_y)

\* Lines 307-335: the measurements of the returned dict.
analyze_melt_pool_xy_plane ==
    [width |-> width,
     depth |-> depth,
     height |-> height,
     y_reference |-> actual_y_ref,
     width_start_x |-> width_start_x,
     width_end_x |-> width_end_x,
     depth_end_y |-> depth_end_y,
     height_end_y |-> height_end_y]

\* Line 234: a slice of at least two rows and two columns, a reference line
\* inside the domain or just outside it.
InitPool ==
    /\ xy_slice \in UNION {[1 .. n -> [1 .. m -> CellValues]] :
                              n \in 2 .. MaxRows, m \in 2 .. MaxCols}
    /\ y_reference \in -1 .. y(Len(xy_slice)) + 1
    /\ threshold \in PoolThresholds
    /\ pool_pc = "start"
    /\ results = <<>>
    /\ ExtractorIdle
    /\ SamplerIdle
    /\ WaitIdle
    /\ MainIdle
    /\ GridIdle

\* Lines 236-335.
Analyze ==
    /\ pool_pc = "start"
    /\ results' = analyze_melt_pool_xy_plane
    /\ pool_pc' = "done"
    /\ UNCHANGED <<xy_slice, y_reference, threshold>>
    /\ UNCHANGED <<extractorVars, samplerVars, waitVars, mainVars, gridVars>>

NextPool == Analyze

SpecPool == InitPool /\ [][NextPool]_vars

-----------------------------------------------------------------------------
(* Properties. *)

\* d <= 0 and d > 0 as the claims read them (False for NaN).
NotAbove(d) == ~d.nan /\ d.num <= 0
Above(d) == ~d.nan /\ d.num > 0

Last(s) == s[Len(s)]

IsScanStep == pc = "scan" /\ pc' = "scan" /\ i' = i + 1

\* C1: in the detection scan, for every adjacent pair of resampled points
\* with d0 = value0 - threshold and d1 = value1 - threshold, a crossing is
\* appended for that pair if and only if (d0 <= 0 and d1 > 0) or (d0 > 0 and
\* d1 <= 0); it is "up" in the first case and "down" in the second, and the
\* crossing list is left as it was for a pair that fails both tests.
C1_CrossingIffSignChange ==
    [][IsScanStep =>
         LET d0   == diff(i)
             d1   == diff(i + 1)
             up   == NotAbove(d0) /\ Above(d1)
             down == Above(d0) /\ NotAbove(d1)
         IN  /\ (up \/ down) <=> Len(crossings') = Len(crossings) + 1
             /\ (up \/ down) => SubSeq(crossings', 1, Len(crossings)) = crossings
             /\ up => Last(crossings').type = "up"
             /\ down => Last(crossings').type = "down"
             /\ ~(up \/ down) => crossings' = crossings]_vars

\* C1 witness: the scan has recorded an up and a down crossing and has also
\* passed pairs without a sign change.
C1_Witness ==
    /\ pc = "scan"
    /\ \E a, b \in 1 .. Len(crossings) :
          crossings[a].type = "up" /\ crossings[b].type = "down"
    /\ i > Len(crossings)

\* The scan that C2 describes, from cursor c (counted from 1) with the
\* intervals `out` emitted so far.
RECURSIVE CursorScan(_, _, _)
CursorScan(cs, c, out) ==
    IF c > Len(cs) THEN out
    ELSE IF c < Len(cs) /\ cs[c].type = "up" /\ cs[c + 1].type = "down"
         THEN CursorScan(cs, c + 2,
                         Append(out, [start_time   |-> cs[c].time,
                                      end_time     |-> cs[c + 1].time,
                                      duration     |-> FSub(cs[c + 1].time,
                                                            cs[c].time),
                                      spike_number |-> Len(out) + 1]))
         ELSE CursorScan(cs, c + 1, out)

\* C2: the pairing loop is the cursor scan: from the first crossing, an up
\* crossing at the cursor with a down crossing next emits {start, end,
\* duration = end - start, number = emitted so far + 1} and moves the cursor
\* by 2, anything else emits nothing and moves it by 1. At every iteration
\* the loop's cursor and partial list continue to the scan's result, and the
\* returned list is that result.
C2_PairingIsCursorScan ==
    /\ pc = "pair" =>
          CursorScan(crossings, i + 1, time_above_melt_periods)
             = CursorScan(crossings, 1, <<>>)
    /\ pc = "done" =>
          /\ time_above_melt_periods = CursorScan(crossings, 1, <<>>)
          /\ returned[3] = CursorScan(crossings, 1, <<>>)

\* C2 witness: a finished pairing that emitted intervals and skipped
\* crossings.
C2_Witness ==
    /\ pc = "done"
    /\ Len(time_above_melt_periods) >= 1
    /\ Len(crossings) > 2 * Len(time_above_melt_periods) + 1

\* C3 (as claimed): a call with fewer than 2 samples does not return the
\* normal empty result of a call that found no crossings.
C3_TooFewSamplesIsAnError ==
    (pc = "done" /\ Len(time_data) < 2) => returned # <<<<>>, <<>>, <<>>>>

IsSortedInts(t) == \A k \in 1 .. Len(t) - 1 : t[k] <= t[k + 1]

Up(t) == [time |-> FromInt(t), type |-> "up"]
Down(t) == [time |-> FromInt(t), type |-> "down"]
Interval(a, b, n) ==
    [start_time |-> a, end_time |-> b, duration |-> FSub(b, a),
     spike_number |-> n]

\* No interval starts or ends at time t.
NoEndpointAt(t) ==
    \A k \in 1 .. Len(time_above_melt_periods) :
        /\ time_above_melt_periods[k].start_time # t
        /\ time_above_melt_periods[k].end_time # t

\* Crossing j is an up crossing immediately followed by another up crossing.
UpThenUp(j) ==
    /\ j < Len(crossings)
    /\ crossings[j].type = "up"
    /\ crossings[j + 1].type = "up"

\* Crossing j is a down crossing that no up crossing immediately precedes.
UnmatchedDown(j) ==
    /\ crossings[j].type = "down"
    /\ j = 1 \/ crossings[j - 1].type = "down"

\* C6: an unmatched crossing produces no interval. When the cursor is on an
\* up crossing immediately followed by an up crossing, or on a down
\* crossing, the iteration emits nothing and moves on by 1; in the result
\* (crossing times distinct, so that a time names one crossing) no interval
\* has such an up crossing, or a down crossing not preceded by an up
\* crossing, as an endpoint; and [Up@1, Up@2, Down@3] yields exactly the
\* one interval (2, 3).
C6_UnmatchedCrossingDropped ==
    /\ [][(pc = "pair" /\ pc' = "pair"
             /\ (UpThenUp(i + 1) \/ crossings[i + 1].type = "down"))
          => (time_above_melt_periods' = time_above_melt_periods
                /\ i' = i + 1)]_vars
    /\ [](pc = "done" =>
            /\ (\A k \in 1 .. Len(crossings) - 1 :
                   FLt(crossings[k].time, crossings[k + 1].time))
               => \A j \in 1 .. Len(crossings) :
                     (UpThenUp(j) \/ UnmatchedDown(j))
                        => NoEndpointAt(crossings[j].time)
            /\ crossings = <<Up(1), Up(2), Down(3)>>
               => time_above_melt_periods
                     = <<Interval(FromInt(2), FromInt(3), 1)>>)

\* C6 witness: the pairing of [Up@1, Up@2, Down@3] has returned (2, 3).
C6_Witness ==
    /\ pc = "done"
    /\ crossings = <<Up(1), Up(2), Down(3)>>
    /\ returned[3] = <<Interval(FromInt(2), FromInt(3), 1)>>

\* C7: a crossing list of length 2k that alternates up, down, up, down, ...
\* yields exactly k intervals, the n-th pairing crossings 2n - 1 and 2n;
\* [Up@1, Down@2, Up@3, Down@4] yields (1, 2) and (3, 4).
C7_AlternatingListPairsAll ==
    (/\ pc = "done"
     /\ Len(crossings) % 2 = 0
     /\ \A j \in 1 .. Len(crossings) :
           crossings[j].type = IF j % 2 = 1 THEN "up" ELSE "down")
    => /\ Len(returned[3]) = Len(crossings) \div 2
       /\ \A n \in 1 .. Len(returned[3]) :
             returned[3][n] = Interval(crossings[2 * n - 1].time,
                                       crossings[2 * n].time, n)

\* C7 witness: [Up@1, Down@2, Up@3, Down@4] has returned (1, 2) and (3, 4).
C7_Witness ==
    /\ pc = "done"
    /\ crossings = <<Up(1), Down(2), Up(3), Down(4)>>
    /\ returned[3] = <<Interval(FromInt(1), FromInt(2), 1),
                       Interval(FromInt(3), FromInt(4), 2)>>

\* Where the segment from (t0, v0) to (t1, v1), v0 # v1, meets the melt line.
TrueCrossing(t0, v0, t1, v1) ==
    Rat(t0 * (v1 - v0) + (melt_temp - v0) * (t1 - t0), v1 - v0)

\* The sorted series is one triangular spike: three samples at increasing
\* times, at or below the melt line, above it, at or below it.
IsSingleSpike ==
    /\ Len(sorted_time) = 3
    /\ sorted_time[1] < sorted_time[2] /\ sorted_time[2] < sorted_time[3]
    /\ sorted_temp[1] <= melt_temp
    /\ sorted_temp[2] > melt_temp
    /\ sorted_temp[3] <= melt_temp

\* C8 (as claimed): a single triangular spike yields exactly an up and a
\* down crossing at the true crossing times of the original series and one
\* interval, numbered 1, between them.
C8_SingleSpike ==
    (pc = "done" /\ IsSingleSpike) =>
       LET up   == TrueCrossing(sorted_time[1], sorted_temp[1],
                                sorted_time[2], sorted_temp[2])
           down == TrueCrossing(sorted_time[2], sorted_temp[2],
                                sorted_time[3], sorted_temp[3])
       IN  returned = <<<<up, down>>, <<"up", "down">>,
                        <<Interval(up, down, 1)>>>>

CrossingsNear(m) ==
    {j \in 1 .. Len(crossings) :
        /\ FLe(time_interp(m - 1), crossings[j].time)
        /\ FLe(crossings[j].time, time_interp(m + 1))}

OnMeltLine(m) == ~diff(m).nan /\ diff(m).num = 0

InteriorPoints == IF Len(sorted_time) >= 2 THEN 1 .. NumInterp - 2 ELSE {}

\* C11: a resampled point that lies exactly on the melt line counts as not
\* above on both sides.  Once the detection loop is over, a point on the melt
\* line between a point below and a point above has exactly one crossing
\* around it, an "up" at that point; between a point above and a point below
\* exactly one, a "down" at that point; between two points below, none.
C11_OnMeltLineCountedOnce ==
    pc \in {"pair", "done"} =>
        \A m \in InteriorPoints :
            OnMeltLine(m) =>
                LET before == diff(m - 1)
                    after == diff(m + 1)
                    near == CrossingsNear(m)
                IN  /\ FLt(before, Zero) /\ FGt(after, Zero) =>
                        /\ Cardinality(near) = 1
                        /\ \A j \in near :
                              crossings[j] = [time |-> time_interp(m),
                                              type |-> "up"]
                    /\ FGt(before, Zero) /\ FLt(after, Zero) =>
                        /\ Cardinality(near) = 1
                        /\ \A j \in near :
                              crossings[j] = [time |-> time_interp(m),
                                              type |-> "down"]
                    /\ FLt(before, Zero) /\ FLt(after, Zero) => near = {}

\* The series rises through the melt line exactly at a resampled point and
\* the call has returned the one "up" crossing.
C11_Witness ==
    /\ pc = "done"
    /\ \E m \in InteriorPoints :
          /\ OnMeltLine(m)
          /\ FLt(diff(m - 1), Zero)
          /\ FGt(diff(m + 1), Zero)
          /\ returned[1] = <<time_interp(m)>>
          /\ returned[2] = <<"up">>


C13_FlatGuardUnreachable ==
    [][IsScanStep /\ SignChange(diff(i), diff(i + 1)) =>
         /\ FNe(diff(i + 1), diff(i))
         /\ ~temp_interp(i).nan
         /\ ~temp_interp(i + 1).nan
         /\ FSub(temp_interp(i + 1), temp_interp(i)).num # 0
         /\ Len(crossings') = Len(crossings) + 1]_vars

\* C13 witness: the detection loop is at a pair with a sign change, after
\* having passed a flat pair that lies on the melt line.
C13_Witness ==
    /\ pc = "scan"
    /\ i < NumInterp - 1
    /\ SignChange(diff(i), diff(i + 1))
    /\ \E k \in 0 .. i - 1 :
          /\ OnMeltLine(k)
          /\ OnMeltLine(k + 1)


\* ---- C14 ----
\* The permutation a stable sort by time applies: ascending times, equal
\* times in input order.
StableArgSort(t) ==
    CHOOSE p \in Perms(Len(t)) :
        \A a, b \in 1 .. Len(t) :
            a < b => \/ t[p[a]] < t[p[b]]
                     \/ t[p[a]] = t[p[b]] /\ p[a] < p[b]

\* C14: after normalization the times are non-decreasing and samples with
\* equal times keep their input order (a stable sort); a series with
\* duplicate timestamps is processed to a returned result.
C14_StableSort ==
    pc \in {"interp", "scan", "pair", "done"} /\ Len(time_data) >= 2 =>
        /\ IsSortedInts(sorted_time)
        /\ sorted_time = Take(time_data, StableArgSort(time_data))
        /\ sorted_temp = Take(temp_data, StableArgSort(time_data))


\* ---- C15 ----
\* Direct root-finding on the original sorted series: the directions of the
\* sign changes between adjacent samples k, k + 1 for k = from .. n - 1.
RECURSIVE SegmentCrossings(_)
SegmentCrossings(from) ==
    IF from >= Len(sorted_temp) THEN <<>>
    ELSE LET d0 == sorted_temp[from] - melt_temp
             d1 == sorted_temp[from + 1] - melt_temp
             here == IF d0 <= 0 /\ d1 > 0 THEN <<"up">>
                     ELSE IF d0 > 0 /\ d1 <= 0 THEN <<"down">>
                     ELSE <<>>
         IN  here \o SegmentCrossings(from + 1)

\* C15: detection on the 10x resampled signal finds the crossings that
\* direct segment-wise root-finding on the original sorted series finds: as
\* many, with the same directions, in the same order.
C15_ResamplingEquivalent ==
    pc = "done" /\ Len(time_data) >= 2 =>
        returned[2] = SegmentCrossings(1)


\* ---- C16 ----
PeriodsInOrder(periods) ==
    /\ \A k \in 1 .. Len(periods) : periods[k].spike_number = k
    /\ \A k \in 1 .. Len(periods) - 1 :
          FLe(periods[k].start_time, periods[k + 1].start_time)

\* C16: the intervals are kept in the order they are emitted, which is by
\* ascending start time, and the k-th interval carries sequence number k:
\* numbers start at 1 and are consecutive whatever the durations are.  This
\* holds while the intervals are collected and for the returned list.
C16_PeriodsNumberedInOrder ==
    /\ PeriodsInOrder(time_above_melt_periods)
    /\ pc = "done" => PeriodsInOrder(returned[3])

\* C16 witness: two intervals were returned, the second longer than the
\* first.
C16_Witness ==
    /\ pc = "done"
    /\ Len(returned[3]) = 2
    /\ FLt(returned[3][1].duration, returned[3][2].duration)
    /\ FLt(returned[3][1].start_time, returned[3][2].start_time)


\* ---- C17 ----
InputsUnmodified ==
    /\ time_data' = time_data
    /\ temp_data' = temp_data
    /\ melt_temp' = melt_temp

\* The crossings of the grid pairs k, k + 1, ... as a function of the sorted
\* series and the threshold alone.
RECURSIVE CrossingsFrom(_)
CrossingsFrom(k) ==
    IF k >= NumInterp - 1 THEN <<>>
    ELSE (IF SignChange(diff(k), diff(k + 1))
          THEN <<[time |-> CrossingTime(k),
                  type |-> CrossingType(diff(k), diff(k + 1))]>>
          ELSE <<>>) \o CrossingsFrom(k + 1)

ResultOf(cs) ==
    <<[k \in 1 .. Len(cs) |-> cs[k].time],
      [k \in 1 .. Len(cs) |-> cs[k].type],
      CursorScan(cs, 1, <<>>)>>

\* The lines log_message prints during one call that returns periods.
LogOf(periods) ==
    <<"analyzing", "found">> \o [k \in 1 .. Len(periods) |-> "spike"]

\* C17 as claimed: a call writes no log output and leaves the caller's
\* input sequences unmodified.
C17_NoLogOutput ==
    [][InputsUnmodified /\ log' = log]_vars

\* C17 amended: a call leaves the caller's input sequences unmodified and
\* returns lists that are a function of the sorted series and the threshold
\* alone, but it does write log lines: one on entry, then either the
\* too-few-samples line or the crossing count followed by one line per
\* interval.
C17_LogsButLeavesInputs ==
    /\ [][InputsUnmodified]_vars
    /\ [](pc = "done" =>
            IF Len(time_data) < 2
            THEN /\ log = <<"analyzing", "not_enough">>
                 /\ returned = <<<<>>, <<>>, <<>>>>
            ELSE /\ log = LogOf(returned[3])
                 /\ returned = ResultOf(CrossingsFrom(0)))

\* C17 witness: a call on an unsorted series has returned an interval and
\* logged it.
C17_Witness ==
    /\ pc = "done"
    /\ ~IsSortedInts(time_data)
    /\ Len(returned[3]) = 1
    /\ log = <<"analyzing", "found", "spike">>


\* ---- C18 ----
\* More iterations than either loop of one call can make.
LoopBound == OVERSAMPLE * Len(time_data) + 2

\* A measure of the work left: the phases in order, and within a loop the
\* distance of its cursor from the end.
Rank ==
    CASE pc = "start"  -> 5 * LoopBound
      [] pc = "sort"   -> 4 * LoopBound
      [] pc = "interp" -> 3 * LoopBound
      [] pc = "scan"   -> 2 * LoopBound + (NumInterp - 1 - i)
      [] pc = "pair"   -> LoopBound + (Len(crossings) - i)
      [] pc = "done"   -> 0

IsPairStep == pc = "pair" /\ pc' = "pair"

\* A call that has not returned can take a step that changes its state.  In
\* the detection loop that is an iteration (which moves the cursor) while
\* pairs are left.
CanProceed ==
    CASE pc = "done" -> TRUE
      [] pc = "scan" -> i < NumInterp - 1 \/ ENABLED <<ScanEnd>>_vars
      [] OTHER -> ENABLED <<CheckLength \/ Sort \/ Interpolate
                            \/ PairStep \/ PairEnd>>_vars

\* C18: every call terminates.  Until it has returned the call can take a
\* step that changes its state, and every step lowers a measure that is a
\* natural number; the detection loop moves its cursor by one resampled pair
\* per iteration and never past the last pair, and the pairing loop moves its
\* cursor forward by 1 or 2 per iteration and never past the end of the
\* crossing list.
C18_Terminates ==
    /\ []CanProceed
    /\ [](Rank \in Nat)
    /\ [][Rank' < Rank]_vars
    /\ [][IsScanStep => i' = i + 1 /\ i' <= NumInterp - 1]_vars
    /\ [][IsPairStep => i' \in {i + 1, i + 2} /\ i' <= Len(crossings)]_vars

\* C18 witness: a call has returned after its pairing loop advanced by 2
\* (an interval) and by 1 (a crossing left over at the cursor).
C18_Witness ==
    /\ pc = "done"
    /\ Len(crossings) >= 3
    /\ Len(time_above_melt_periods) = 1
    /\ i >= Len(crossings) - 1


\* ---- C19 ----
\* The sum of a list of durations, from the last one back.
RECURSIVE SumOfDurations(_)
SumOfDurations(ds) ==
    IF ds = <<>> THEN Zero
    ELSE FAdd(SumOfDurations(SubSeq(ds, 1, Len(ds) - 1)), ds[Len(ds)])

\* C19: the caller's statistics are reductions of what the extractor
\* returned: the crossing count is the length of the crossing list, the
\* spike count the length of the interval list, the maximum time above the
\* melt line the largest interval duration, the total the sum of the
\* durations, and the peak spike an interval with that largest duration;
\* without intervals the maximum and the total are 0.
C19_StatisticsAreReductions ==
    pc = "done" =>
        LET ds == Durations(time_above_melt_periods)
        IN  /\ total_crossings = Len(crossings)
            /\ total_spikes = Len(time_above_melt_periods)
            /\ total_time_above_melt = SumOfDurations(ds)
            /\ IF ds = <<>>
               THEN /\ max_time_above_melt = Zero
                    /\ total_time_above_melt = Zero
               ELSE /\ \E k \in 1 .. Len(ds) : max_time_above_melt = ds[k]
                    /\ \A k \in 1 .. Len(ds) : FLe(ds[k], max_time_above_melt)
                    /\ \E k \in 1 .. Len(ds) :
                          max_spike = time_above_melt_periods[k]
                    /\ max_spike.duration = max_time_above_melt

\* C19 witness: two intervals were returned and the longer one came first.
C19_Witness ==
    /\ pc = "done"
    /\ total_spikes = 2
    /\ total_crossings = 4
    /\ FGt(returned[3][1].duration, returned[3][2].duration)
    /\ max_spike = returned[3][1]


\* ---- C20 ----
IsProcessFile == sampling = "loop" /\ file_index' = file_index + 1

\* The candidate names, in priority order, that a file holds.
CandidatesHeld(file) ==
    {k \in 1 .. Len(temp_field_names) :
        \E j \in 1 .. Len(file.point_data) :
            file.point_data[j].name = temp_field_names[k]}

NoSampleAdded == timesteps' = timesteps /\ temperatures' = temperatures

\* This iteration appended the file's timestep and the value of that field.
SampleAddedFrom(file, field_name) ==
    /\ timesteps' = Append(timesteps, file.timestep)
    /\ Len(temperatures') = Len(temperatures) + 1
    /\ SubSeq(temperatures', 1, Len(temperatures)) = temperatures
    /\ Last(temperatures').field = field_name
    /\ Last(temperatures').timestep = file.timestep

\* C20 as claimed: for a file that was read, the value is taken from the
\* first of T, Temperature, temperature, TEMPERATURE, temp, Temp the file
\* holds; when it holds none of them the timestep yields no value and adds no
\* sample to the series.
C20_NoCandidateNoSample ==
    [][IsProcessFile =>
         LET file == vtk_files[file_index + 1]
             held == CandidatesHeld(file)
         IN  file.readable =>
                IF held # {}
                THEN \E k \in held :
                        /\ \A j \in held : k <= j
                        /\ SampleAddedFrom(file, temp_field_names[k])
                ELSE NoSampleAdded]_vars

\* C20 amended: as claimed while the file holds a candidate name; when it
\* holds none, the value is taken from the first point-data array of the
\* file, and the timestep adds no sample only if the file holds no
\* point-data array at all, the value found is not a scalar, or the file
\* could not be read.
C20_FallsBackToFirstArray ==
    [][IsProcessFile =>
         LET file == vtk_files[file_index + 1]
             held == CandidatesHeld(file)
         IN  IF ~file.readable \/ file.point_data = <<>>
             THEN NoSampleAdded
             ELSE LET field_name ==
                         IF held # {}
                         THEN temp_field_names[
                                 CHOOSE k \in held : \A j \in held : k <= j]
                         ELSE file.point_data[1].name
                      scalar ==
                         \A j \in 1 .. Len(file.point_data) :
                            file.point_data[j].name = field_name =>
                               file.point_data[j].components = 1
                  IN  IF scalar THEN SampleAddedFrom(file, field_name)
                      ELSE NoSampleAdded]_vars

\* C20 witness: the series holds a sample of a file whose value came from the
\* lower-priority position in the file but the higher-priority name, and a
\* sample taken from the first array of a file without any candidate name.
C20_Witness ==
    /\ sampling = "analyse"
    /\ Len(vtk_files) = 2
    /\ vtk_files[1].point_data
          = <<[name |-> "temp", components |-> 1],
              [name |-> "T", components |-> 1]>>
    /\ CandidatesHeld(vtk_files[2]) = {}
    /\ Len(temperatures) = 2
    /\ temperatures[1].field = "T"
    /\ temperatures[2].field = "p"
    /\ timesteps = <<1, 2>>


\* ---- C25 ----
Alternates(types) ==
    \A k \in 1 .. Len(types) - 1 : types[k] # types[k + 1]

\* C25: for every series of at least 2 samples and every threshold, the
\* directions of the crossings strictly alternate, while they are collected
\* and as returned: an "up" is followed by a "down" and a "down" by an "up".
C25_DirectionsAlternate ==
    /\ Alternates([k \in 1 .. Len(crossings) |-> crossings[k].type])
    /\ pc = "done" => Alternates(returned[2])

\* C25 witness: four crossings were returned.
C25_Witness ==
    /\ pc = "done"
    /\ returned[2] = <<"up", "down", "up", "down">>


\* ---- C26 ----
\* The down crossings that have an up crossing somewhere before them.
DownsAfterAnUp(cs) ==
    {k \in 1 .. Len(cs) :
        cs[k].type = "down" /\ \E j \in 1 .. k - 1 : cs[j].type = "up"}

\* The intervals that start at crossing k and end at the crossing after it.
PeriodsStartingAt(k) ==
    {j \in 1 .. Len(time_above_melt_periods) :
        /\ time_above_melt_periods[j].start_time = crossings[k].time
        /\ time_above_melt_periods[j].end_time = crossings[k + 1].time}

\* C26: on the crossing list the detection scan produced, pairing drops no
\* period above the melt line: every up crossing other than a last,
\* unmatched one starts exactly one returned interval, which ends at the
\* crossing after it, and there are as many intervals as down crossings with
\* an up crossing before them.
C26_PairingDropsNothing ==
    pc = "done" /\ Len(time_data) >= 2 =>
        /\ returned[3] = time_above_melt_periods
        /\ \A k \in 1 .. Len(crossings) - 1 :
              crossings[k].type = "up" =>
                 Cardinality(PeriodsStartingAt(k)) = 1
        /\ Len(time_above_melt_periods)
              = Cardinality(DownsAfterAnUp(crossings))

\* C26 witness: the scan produced down, up, down, up; the first down has no
\* up before it and the last up no down after it.
C26_Witness ==
    /\ pc = "done"
    /\ returned[2] = <<"down", "up", "down", "up">>
    /\ Len(returned[3]) = 1


IsPoll ==
    /\ wait_pc = "polling"
    /\ now < timeout
    /\ mtimes' = mtimes
    /\ poll_outcome' \in {"returned", "slept"}

\* A step of the waiting loop that raised (lines 590-592).
IsPollRaises ==
    /\ wait_pc = "polling"
    /\ now < timeout
    /\ mtimes' = mtimes
    /\ poll_outcome' = "raised"

\* The poll returned this file (lines 579, 585).
PollReturns(f) ==
    /\ wait_pc' = "returned"
    /\ wait_result' = f

\* C21: given a previously processed last_file, a poll within the timeout
\* returns the most recently modified file when that file is a different
\* file with a newer modification time than last_file, and also when it is
\* last_file itself, modified again during the wait.
C21_ReturnsNewOrModified ==
    [][(/\ IsPoll
        /\ last_file # NoFile
        /\ find_latest_vtk_file # NoFile
        /\ \/ NewerThanLast(find_latest_vtk_file)
           \/ /\ find_latest_vtk_file = last_file
              /\ last_file \in written)
       => PollReturns(find_latest_vtk_file)]_vars

AttemptedInOrder ==
    /\ Len(attempted) <= Len(array_attempts)
    /\ Len(attempt_outcomes) = Len(attempted)
    /\ \A k \in 1 .. Len(attempted) : attempted[k] = array_attempts[k]

\* Attempt k completed both the analysis and the visualization.
CompletedBoth(k) == attempt_outcomes[k] \in PastVisualization

\* C22: the candidate names are attempted in the order of array_attempts; an
\* attempt that raises in analysis or visualization is followed by the next
\* name; the first attempt that completes both analysis and visualization
\* ends the process with exit code 0 and no later name is attempted; the
\* exit code is 1 exactly when every attempt failed.
C22_FirstSuccessExits ==
    /\ [](/\ AttemptedInOrder
          /\ \A k \in 1 .. Len(attempted) :
                CompletedBoth(k) => (k = Len(attempted) /\ exit_code = 0)
          /\ exit_code = 1
                <=> /\ Len(attempted) = Len(array_attempts)
                    /\ \A k \in 1 .. Len(attempted) : ~CompletedBoth(k)
                    /\ exit_code # Running)
    /\ [][Len(attempted') > Len(attempted)
             => /\ attempted' = Append(attempted,
                                       array_attempts[Len(attempted) + 1])
                /\ \A k \in 1 .. Len(attempted) : ~CompletedBoth(k)]_vars

\* Positions of the arrays carrying exactly the requested name.
ExactlyNamed ==
    {k \in 1 .. Len(point_arrays) : point_arrays[k].name = requested_array}

\* Positions whose available name contains, or is contained in, the
\* requested name, ignoring case.
PartlyNamed ==
    {k \in 1 .. Len(point_arrays) :
        \/ In(Lower(requested_array), Lower(get_available_arrays[k]))
        \/ In(Lower(get_available_arrays[k]), Lower(requested_array))}

Least(S) == CHOOSE k \in S : \A j \in S : k <= j

\* The array can be fetched under its available name.
Obtainable(k) == point_arrays[k].name # ""

\* The array the fallback chain designates, 0 when there is none.
ChainPick ==
    IF ExactlyNamed # {} THEN Least(ExactlyNamed)
    ELSE IF PartlyNamed # {} /\ Obtainable(Least(PartlyNamed))
         THEN Least(PartlyNamed)
    ELSE IF point_arrays # <<>> /\ Obtainable(1) THEN 1
    ELSE 0

\* The call is over and the steps before the array lookup did not raise.
LookedUp == grid_pc = "done" /\ grid_outcome.cause # "probe"

\* C23 as stated: the array is resolved by the chain exact name, first
\* partial match, first available array, and the call fails only when no
\* array can be obtained at all.
C23_FailsOnlyWithoutArray ==
    LookedUp =>
        /\ grid_outcome.kind = "data" => grid_outcome.array = ChainPick
        /\ grid_outcome.kind = "error" => ChainPick = 0

\* C23, amended: the array is resolved by the chain exact name, first
\* partial match (either name containing the other, ignoring case), first
\* available array; the call fails when no array can be obtained, when the
\* array obtained has more than one component, or when an earlier step
\* raises, and then returns no data; otherwise it returns the data of the
\* array the chain designates.
C23_FallbackChain ==
    /\ grid_pc = "done"
          => (grid_outcome.kind = "error" <=> grid_outcome.array = 0)
    /\ (grid_pc = "done" /\ grid_outcome.cause = "probe")
          => grid_outcome.kind = "error"
    /\ LookedUp =>
          IF ChainPick # 0 /\ point_arrays[ChainPick].components = 1
          THEN grid_outcome = Returned(ChainPick)
          ELSE grid_outcome.kind = "error"

\* The requested name is absent and the data come from an array, not the
\* first one, whose name is contained in the requested name.
C23_Witness ==
    /\ grid_pc = "done"
    /\ grid_outcome.kind = "data"
    /\ ExactlyNamed = {}
    /\ grid_outcome.array > 1
    /\ In(Lower(point_arrays[grid_outcome.array].name),
          Lower(requested_array))

\* Rows of the slice with no value above the threshold.
RowsNotMelted ==
    {k \in 1 .. Len(xy_slice) :
        \A c \in 1 .. Len(xy_slice[k]) : ~(xy_slice[k][c] > threshold)}

\* The reference row: the first of the rows nearest to y_reference.
RefRow ==
    CHOOSE k \in 1 .. Len(xy_slice) :
        /\ \A j \in 1 .. Len(xy_slice) :
              Abs(y(k) - y_reference) <= Abs(y(j) - y_reference)
        /\ \A j \in 1 .. k - 1 :
              Abs(y(k) - y_reference) < Abs(y(j) - y_reference)

====
